---- MODULE Spec2Model ----
(***************************************************************************)
(* Model of the Ansible module massopencloud.esi.node_network              *)
(* (plugins/modules/node_network.py): NodeNetworkModule.run reconciles the *)
(* Neutron networks attached to an Ironic node against a desired list.     *)
(*                                                                         *)
(* The two OpenStack services are the state.  One run of the module is the *)
(* iteration of Step, one external API call per step, from StartRun to a   *)
(* final local state; the action Run performs a whole run.                 *)
(***************************************************************************)
EXTENDS Integers, Sequences, FiniteSets, TLC

(***************************************************************************)
(* Bounds of the model.                                                    *)
(***************************************************************************)
NumNets == 4        \* visible networks
NumPorts == 2       \* physical (baremetal) ports of the node
MaxInitPorts == 2   \* Neutron ports that exist before the first run
MaxDesired == 2     \* distinct references in the networks parameter
MaxPortId == 5      \* no run starts once Neutron has handed out this many ids

(***************************************************************************)
(* The universe of values.                                                 *)
(***************************************************************************)
NodeName == "N"
NodeId == "node-1"
Nodes ==
  << [id |-> NodeId, name |-> NodeName], [id |-> "node-2", name |-> "M"] >>
NodeRefs == {NodeName, NodeId, "ghost"}

\* Neutron lets several networks share one name: the third network repeats
\* the name of the first, the fourth the name of the second.
NetIds == << "n1", "n2", "n3", "n4", "n5", "n6" >>
NetNames == << "a", "b", "a", "b", "c", "c" >>
HiddenNet == "n0"   \* a network that network.networks() does not list
AllNetworks == [k \in 1..NumNets |-> [id |-> NetIds[k], name |-> NetNames[k]]]
Refs ==
  {NetIds[k] : k \in 1..NumNets} \cup {NetNames[k] : k \in 1..NumNets}
    \cup {"does-not-exist"}

NoVif == 0          \* internal_info without the key tenant_vif_port_id
NoNode == [id |-> "", name |-> ""]
NoPort == [id |-> 0, name |-> "", network_id |-> ""]
NoBmPort == [id |-> 0, node_id |-> "", vif |-> NoVif]

(***************************************************************************)
(* Helpers on sequences.                                                   *)
(***************************************************************************)
Range(s) == {s[k] : k \in 1..Len(s)}

\* "%s-%s" % (node_name, network_name)
PortName(node_name, network_name) == node_name \o "-" \o network_name

(***************************************************************************)
(* The external services.  A cloud is a record                             *)
(*   networks : the networks network.networks() lists, in listing order    *)
(*   ports    : the Neutron ports, in listing order                        *)
(*   bmports  : the Ironic ports of all nodes, in listing order            *)
(*   nextId   : the id the next created Neutron port gets (ids are fresh)  *)
(***************************************************************************)

\* conn.baremetal.find_node(name_or_id, ignore_missing=False)
FindNode(ref) ==
  LET Hit(n) == n.id = ref \/ n.name = ref
      found == SelectSeq(Nodes, Hit)
  IN IF found = << >> THEN NoNode ELSE found[1]

\* list(conn.baremetal.ports(details=True, node_id=node.id))
BaremetalPorts(c, node_id) ==
  LET Mine(bp) == bp.node_id = node_id
  IN SelectSeq(c.bmports, Mine)

\* conn.network.find_port(id, ignore_missing=True).  The argument is always
\* a VIF id, and no port name is a port id, so the lookup is by id.
FindPort(c, id) ==
  LET Hit(p) == p.id = id
      found == SelectSeq(c.ports, Hit)
  IN IF found = << >> THEN NoPort ELSE found[1]

\* list(conn.network.ports(name=port_name))
PortsNamed(c, port_name) ==
  LET Hit(p) == p.name = port_name
  IN SelectSeq(c.ports, Hit)

\* conn.network.create_port(name=..., network_id=..., device_owner=...)
CreatePort(c, port_name, network_id) ==
  [c EXCEPT !.ports = Append(@, [id |-> c.nextId, name |-> port_name,
                                 network_id |-> network_id]),
            !.nextId = @ + 1]

\* conn.network.delete_port(port_id)
DeletePort(c, id) ==
  LET Keep(p) == p.id # id
  IN [c EXCEPT !.ports = SelectSeq(@, Keep)]

\* conn.baremetal.detach_vif_from_node(node, vif_id): Ironic drops the key
\* tenant_vif_port_id from the port of the node that carries the VIF.
DetachVif(c, node_id, vif) ==
  [c EXCEPT !.bmports =
     [k \in 1..Len(@) |->
        IF @[k].node_id = node_id /\ @[k].vif = vif
        THEN [@[k] EXCEPT !.vif = NoVif] ELSE @[k]]]

\* Ironic refuses a VIF that is already attached to the node and a physical
\* port that already carries a VIF.
CanAttachVif(c, node_id, vif, bm_id) ==
  /\ \A k \in 1..Len(c.bmports) :
       c.bmports[k].node_id = node_id => c.bmports[k].vif # vif
  /\ \E k \in 1..Len(c.bmports) :
       /\ c.bmports[k].id = bm_id
       /\ c.bmports[k].node_id = node_id
       /\ c.bmports[k].vif = NoVif

\* conn.baremetal.attach_vif_to_node(node, vif_id, port_id=bm_id)
AttachVif(c, node_id, vif, bm_id) ==
  [c EXCEPT !.bmports =
     [k \in 1..Len(@) |->
        IF @[k].id = bm_id THEN [@[k] EXCEPT !.vif = vif] ELSE @[k]]]

(***************************************************************************)
(* The helpers of NodeNetworkModule.                                       *)
(***************************************************************************)

\* _find_network_port: the first Neutron port with the conventional name
find_network_port(c, node_name, network_name) ==
  LET existing_ports == PortsNamed(c, PortName(node_name, network_name))
  IN IF existing_ports # << >> THEN existing_ports[1] ELSE NoPort

\* _find_matching_baremetal_port: the first fetched physical port whose
\* tenant_vif_port_id is the id of network_port
find_matching_baremetal_port(baremetal_ports, network_port) ==
  LET Hit(bp) == bp.vif = network_port.id
      found == SelectSeq(baremetal_ports, Hit)
  IN IF network_port = NoPort \/ found = << >> THEN NoBmPort ELSE found[1]

\* _find_free_baremetal_port without the test for tenant_vif_port_id: the
\* first fetched physical port, free or not
find_free_baremetal_port_any(baremetal_ports) ==
  IF baremetal_ports = << >> THEN NoBmPort ELSE baremetal_ports[1]

\* _find_free_baremetal_port returning the last free port instead of the first
find_free_baremetal_port_last(baremetal_ports) ==
  LET Free(bp) == bp.vif = NoVif
      found == SelectSeq(baremetal_ports, Free)
  IN IF found = << >> THEN NoBmPort ELSE found[Len(found)]

\* _find_free_baremetal_port: the first fetched physical port without the
\* key tenant_vif_port_id
find_free_baremetal_port(baremetal_ports) ==
  LET Free(bp) == bp.vif = NoVif
      found == SelectSeq(baremetal_ports, Free)
  IN IF found = << >> THEN NoBmPort ELSE found[1]

\* attached_network without the guard of the lookup: a port whose network is
\* not listed counts as the first listed network.
attached_network_unguarded(networks, network_port) ==
  LET Hit(net) == net.id = network_port.network_id
      found == SelectSeq(networks, Hit)
  IN IF network_port = NoPort THEN << >>
     ELSE IF found = << >> THEN << networks[1] >> ELSE << found[1] >>

\* The body of the loop of _get_currently_attached_networks once find_port
\* has answered network_port: the first listed network with that id, if any.
attached_network(networks, network_port) ==
  LET Hit(net) == net.id = network_port.network_id
      found == SelectSeq(networks, Hit)
  IN IF network_port = NoPort \/ found = << >> THEN << >> ELSE << found[1] >>

\* desired_network_objects (run, lines 79-81)
desired_network_objects(networks, desired_networks) ==
  LET Wanted(net) == net.name \in desired_networks \/ net.id \in desired_networks
  IN SelectSeq(networks, Wanted)

\* networks_to_detach that keeps every attachment
networks_to_detach_none(current_network_objects, desired_objects) == << >>

\* networks_to_detach (run, lines 86-88)
networks_to_detach(current_network_objects, desired_objects) ==
  LET desired_network_ids == {net.id : net \in Range(desired_objects)}
      Unwanted(net) == net.id \notin desired_network_ids
  IN SelectSeq(current_network_objects, Unwanted)

\* networks_to_attach with the difference taken by name instead of by id
networks_to_attach_by_name(current_network_objects, desired_objects) ==
  LET current_network_names == {net.name : net \in Range(current_network_objects)}
      Missing(net) == net.name \notin current_network_names
  IN SelectSeq(desired_objects, Missing)

\* networks_to_attach (run, lines 91-93)
networks_to_attach(current_network_objects, desired_objects) ==
  LET current_network_ids == {net.id : net \in Range(current_network_objects)}
      Missing(net) == net.id \notin current_network_ids
  IN SelectSeq(desired_objects, Missing)

(***************************************************************************)
(* A run.  Its local state r holds the local variables of run() under      *)
(* their names, the position pc (the external call the run issues next),   *)
(* the outcome status and the log calls of the external calls issued.      *)
(***************************************************************************)
Call(op, name, net, id, port) ==
  [op |-> op, name |-> name, net |-> net, id |-> id, port |-> port]

Mutating == {"detach_vif", "delete_port", "create_port", "attach_vif"}

\* self.params['networks'] or []
desired_networks(params) == IF params.given THEN params.networks ELSE {}

StartRun(params) ==
  [pc |-> "find_node", status |-> "running", params |-> params,
   node |-> NoNode, desired_networks |-> {},
   baremetal_ports |-> << >>, networks |-> << >>,
   desired_objects |-> << >>, current_network_objects |-> << >>, j |-> 1,
   networks_to_detach |-> << >>, networks_to_attach |-> << >>, i |-> 1,
   network_port |-> NoPort, baremetal_port |-> NoBmPort,
   changed |-> FALSE, calls |-> << >>]

Log(r, call) == [r EXCEPT !.calls = Append(@, call)]

\* self.exit_json(changed=changed)
exit_json(r) == [r EXCEPT !.pc = "end", !.status = "ok"]

\* self.fail_json(msg=...) and the exception of find_node end the module;
\* neither reports changed.
fail(r, status) == [r EXCEPT !.pc = "end", !.status = status]

\* The head of "for network in networks_to_attach" at index r.i
attach_loop(r) ==
  IF r.i <= Len(r.networks_to_attach)
  THEN [r EXCEPT !.pc = "attach_list"]
  ELSE exit_json(r)

\* detach_loop with the bound of the loop off by one: the last network of
\* networks_to_detach is never processed.
detach_loop_off_by_one(r) ==
  IF r.i < Len(r.networks_to_detach)
  THEN [r EXCEPT !.pc = "detach_find"]
  ELSE attach_loop([r EXCEPT !.i = 1])

\* The head of "for network in networks_to_detach" at index r.i
detach_loop(r) ==
  IF r.i <= Len(r.networks_to_detach)
  THEN [r EXCEPT !.pc = "detach_find"]
  ELSE attach_loop([r EXCEPT !.i = 1])

\* The head of "for bp in baremetal_ports" of _get_currently_attached_networks
\* at index r.j, and lines 85-93 after the loop.
RECURSIVE current_loop(_)
current_loop(r) ==
  IF r.j > Len(r.baremetal_ports)
  THEN detach_loop(
         [r EXCEPT !.networks_to_detach =
                     networks_to_detach(r.current_network_objects, r.desired_objects),
                   !.networks_to_attach =
                     networks_to_attach(r.current_network_objects, r.desired_objects),
                   !.i = 1])
  ELSE IF r.baremetal_ports[r.j].vif # NoVif
       THEN [r EXCEPT !.pc = "find_port"]
       ELSE current_loop([r EXCEPT !.j = @ + 1])

\* place_port that raises the failure only at the last network of
\* networks_to_attach and skips an earlier network that finds no free port.
place_port_late_fail(r) ==
  IF find_matching_baremetal_port(r.baremetal_ports, r.network_port) # NoBmPort
  THEN attach_loop([r EXCEPT !.i = @ + 1])
  ELSE LET free == find_free_baremetal_port(r.baremetal_ports)
       IN IF free = NoBmPort
          THEN IF r.i < Len(r.networks_to_attach)
               THEN attach_loop([r EXCEPT !.i = @ + 1])
               ELSE fail(r, "PortExhausted")
          ELSE [r EXCEPT !.baremetal_port = free, !.pc = "attach_vif"]

\* place_port without the check for a free port: the run goes on to the
\* next network instead of failing.
place_port_no_fail(r) ==
  IF find_matching_baremetal_port(r.baremetal_ports, r.network_port) # NoBmPort
  THEN attach_loop([r EXCEPT !.i = @ + 1])
  ELSE LET free == find_free_baremetal_port(r.baremetal_ports)
       IN IF free = NoBmPort
          THEN attach_loop([r EXCEPT !.i = @ + 1])
          ELSE [r EXCEPT !.baremetal_port = free, !.pc = "attach_vif"]

\* Lines 119-127 of the attach loop, once network_port is known.
place_port(r) ==
  IF find_matching_baremetal_port(r.baremetal_ports, r.network_port) # NoBmPort
  THEN attach_loop([r EXCEPT !.i = @ + 1])
  ELSE LET free == find_free_baremetal_port(r.baremetal_ports)
       IN IF free = NoBmPort
          THEN fail(r, "PortExhausted")
          ELSE [r EXCEPT !.baremetal_port = free, !.pc = "attach_vif"]

(***************************************************************************)
(* One step of a run: the external call at r.pc against the cloud c, and   *)
(* the local code up to the next external call.  A machine m is the pair   *)
(* [c |-> cloud, r |-> local state].                                       *)
(***************************************************************************)
\* step_find_node without ignore_missing=False: a missing node does not
\* stop the run, which goes on with the first node Ironic lists.
step_find_node_unchecked(m) ==
  LET r == Log(m.r, Call("find_node", m.r.params.node, "", 0, 0))
      node == FindNode(m.r.params.node)
  IN [m EXCEPT !.r = [r EXCEPT !.node = IF node = NoNode THEN Nodes[1] ELSE node,
                               !.desired_networks = desired_networks(r.params),
                               !.pc = "list_bm"]]

step_find_node(m) ==
  LET r == Log(m.r, Call("find_node", m.r.params.node, "", 0, 0))
      node == FindNode(m.r.params.node)
  IN [m EXCEPT !.r =
        IF node = NoNode
        THEN fail(r, "NotFound")
        ELSE [r EXCEPT !.node = node,
                       !.desired_networks = desired_networks(r.params),
                       !.pc = "list_bm"]]

step_list_bm(m) ==
  LET r == Log(m.r, Call("baremetal_ports", m.r.node.id, "", 0, 0))
  IN [m EXCEPT !.r = [r EXCEPT !.baremetal_ports = BaremetalPorts(m.c, r.node.id),
                               !.pc = "list_networks"]]

\* step_list_networks that rejects a reference matching no network instead
\* of ignoring it.
step_list_networks_strict(m) ==
  LET r == Log(m.r, Call("networks", "", "", 0, 0))
      known == {net.id : net \in Range(m.c.networks)}
                 \cup {net.name : net \in Range(m.c.networks)}
  IN [m EXCEPT !.r =
        IF r.desired_networks \subseteq known
        THEN current_loop(
               [r EXCEPT !.networks = m.c.networks,
                         !.changed = FALSE,
                         !.desired_objects =
                           desired_network_objects(m.c.networks, r.desired_networks),
                         !.current_network_objects = << >>,
                         !.j = 1])
        ELSE fail(r, "NotFound")]

step_list_networks(m) ==
  LET r == Log(m.r, Call("networks", "", "", 0, 0))
  IN [m EXCEPT !.r =
        current_loop(
          [r EXCEPT !.networks = m.c.networks,
                    !.changed = FALSE,
                    !.desired_objects =
                      desired_network_objects(m.c.networks, r.desired_networks),
                    !.current_network_objects = << >>,
                    !.j = 1])]

step_find_port(m) ==
  LET vif == m.r.baremetal_ports[m.r.j].vif
      r == Log(m.r, Call("find_port", "", "", vif, 0))
      network_port == FindPort(m.c, vif)
  IN [m EXCEPT !.r =
        current_loop(
          [r EXCEPT !.current_network_objects =
                      @ \o attached_network(r.networks, network_port),
                    !.j = @ + 1])]

\* step_detach_find that cleans up: a port of the conventional name that no
\* physical port carries is deleted instead of being left alone.
step_detach_find_cleanup(m) ==
  LET network == m.r.networks_to_detach[m.r.i]
      r == Log(m.r, Call("ports", PortName(m.r.node.name, network.name), "", 0, 0))
      network_port == find_network_port(m.c, r.node.name, network.name)
      baremetal_port == find_matching_baremetal_port(r.baremetal_ports, network_port)
  IN [m EXCEPT !.r =
        IF network_port = NoPort
        THEN detach_loop([r EXCEPT !.network_port = network_port, !.i = @ + 1])
        ELSE [r EXCEPT !.network_port = network_port,
                       !.baremetal_port = baremetal_port,
                       !.pc = IF baremetal_port = NoBmPort
                              THEN "delete_port" ELSE "detach_vif"]]

step_detach_find(m) ==
  LET network == m.r.networks_to_detach[m.r.i]
      r == Log(m.r, Call("ports", PortName(m.r.node.name, network.name), "", 0, 0))
      network_port == find_network_port(m.c, r.node.name, network.name)
      baremetal_port == find_matching_baremetal_port(r.baremetal_ports, network_port)
  IN [m EXCEPT !.r =
        IF network_port = NoPort \/ baremetal_port = NoBmPort
        THEN detach_loop([r EXCEPT !.network_port = network_port, !.i = @ + 1])
        ELSE [r EXCEPT !.network_port = network_port,
                       !.baremetal_port = baremetal_port,
                       !.pc = "detach_vif"]]

step_detach_vif(m) ==
  LET r == Log(m.r, Call("detach_vif", "", "", m.r.network_port.id, 0))
  IN [c |-> DetachVif(m.c, r.node.id, r.network_port.id),
      r |-> [r EXCEPT !.pc = "delete_port"]]

\* step_delete_port without "changed = True"
step_delete_port_silent(m) ==
  LET r == Log(m.r, Call("delete_port", "", "", m.r.network_port.id, 0))
  IN [c |-> DeletePort(m.c, r.network_port.id),
      r |-> detach_loop([r EXCEPT !.i = @ + 1])]

step_delete_port(m) ==
  LET r == Log(m.r, Call("delete_port", "", "", m.r.network_port.id, 0))
  IN [c |-> DeletePort(m.c, r.network_port.id),
      r |-> detach_loop([r EXCEPT !.changed = TRUE, !.i = @ + 1])]

\* step_attach_list without the refresh: the attach loop keeps the physical
\* ports fetched at the start of the run.
step_attach_list_stale(m) ==
  LET r == Log(m.r, Call("baremetal_ports", m.r.node.id, "", 0, 0))
  IN [m EXCEPT !.r = [r EXCEPT !.pc = "attach_find"]]

step_attach_list(m) ==
  LET r == Log(m.r, Call("baremetal_ports", m.r.node.id, "", 0, 0))
  IN [m EXCEPT !.r = [r EXCEPT !.baremetal_ports = BaremetalPorts(m.c, r.node.id),
                               !.pc = "attach_find"]]

step_attach_find(m) ==
  LET network == m.r.networks_to_attach[m.r.i]
      r == Log(m.r, Call("ports", PortName(m.r.node.name, network.name), "", 0, 0))
      network_port == find_network_port(m.c, r.node.name, network.name)
  IN [m EXCEPT !.r =
        IF network_port = NoPort
        THEN [r EXCEPT !.network_port = NoPort, !.pc = "create_port"]
        ELSE place_port([r EXCEPT !.network_port = network_port])]

\* _create_network_port
step_create_port(m) ==
  LET network == m.r.networks_to_attach[m.r.i]
      port_name == PortName(m.r.node.name, network.name)
      r == Log(m.r, Call("create_port", port_name, network.id, m.c.nextId, 0))
      c == CreatePort(m.c, port_name, network.id)
  IN [c |-> c,
      r |-> place_port([r EXCEPT !.network_port = c.ports[Len(c.ports)]])]

step_attach_vif(m) ==
  LET r == Log(m.r, Call("attach_vif", "", "", m.r.network_port.id,
                         m.r.baremetal_port.id))
  IN IF CanAttachVif(m.c, r.node.id, r.network_port.id, r.baremetal_port.id)
     THEN [c |-> AttachVif(m.c, r.node.id, r.network_port.id, r.baremetal_port.id),
           r |-> attach_loop([r EXCEPT !.changed = TRUE, !.i = @ + 1])]
     ELSE [m EXCEPT !.r = fail(r, "Conflict")]

Step(m) ==
  CASE m.r.pc = "find_node" -> step_find_node(m)
    [] m.r.pc = "list_bm" -> step_list_bm(m)
    [] m.r.pc = "list_networks" -> step_list_networks(m)
    [] m.r.pc = "find_port" -> step_find_port(m)
    [] m.r.pc = "detach_find" -> step_detach_find(m)
    [] m.r.pc = "detach_vif" -> step_detach_vif(m)
    [] m.r.pc = "delete_port" -> step_delete_port(m)
    [] m.r.pc = "attach_list" -> step_attach_list(m)
    [] m.r.pc = "attach_find" -> step_attach_find(m)
    [] m.r.pc = "create_port" -> step_create_port(m)
    [] m.r.pc = "attach_vif" -> step_attach_vif(m)
    [] OTHER -> m

\* NodeNetworkModule.run from the state m to the end of the module
RECURSIVE RunToEnd(_)
RunToEnd(m) == IF m.r.pc = "end" THEN m ELSE RunToEnd(Step(m))

\* A whole run of the module with the parameters p against the cloud c
run(c, p) == RunToEnd([c |-> c, r |-> StartRun(p)])

(***************************************************************************)
(* The state: the cloud, the parameters of the playbook task (the same in  *)
(* every run of a behaviour), the last run (the cloud it started from and  *)
(* its final local state) and the outcome of the run before it.            *)
(***************************************************************************)
VARIABLES cloud, params, last, prev, runs, startedAfter

vars == << cloud, params, last, prev, runs, startedAfter >>

NoRun == [status |-> "none", changed |-> FALSE]
Outcome(r) == [status |-> r.status, changed |-> r.status = "ok" /\ r.changed]

\* The Neutron ports that may exist before the first run: their names are
\* the conventional names of the node and one name of another convention.
InitPortNames ==
  {PortName(NodeName, NetNames[k]) : k \in 1..NumNets} \cup {"esi-port"}
InitPortNets == {NetIds[k] : k \in 1..NumNets} \cup {HiddenNet}

\* The physical ports: one of the other node, listed first, then the ports
\* of the node.  vif[k] = n + 1 is the id of a port deleted from Neutron.
InitBmPorts(vif) ==
  << [id |-> NumPorts + 1, node_id |-> "node-2", vif |-> NoVif] >>
    \o [k \in 1..NumPorts |-> [id |-> k, node_id |-> NodeId, vif |-> vif[k]]]

Init ==
  /\ \E n \in 0..MaxInitPorts :
       \E name \in [1..n -> InitPortNames], net \in [1..n -> InitPortNets],
          vif \in [1..NumPorts -> 0..(n + 1)] :
         /\ \A k, l \in 1..NumPorts : (k # l /\ vif[k] # NoVif) => vif[k] # vif[l]
         /\ cloud = [networks |-> AllNetworks,
                     ports |-> [k \in 1..n |->
                                  [id |-> k, name |-> name[k], network_id |-> net[k]]],
                     bmports |-> InitBmPorts(vif),
                     nextId |-> n + 2]
  /\ \E node \in NodeRefs, given \in BOOLEAN, nets \in SUBSET Refs :
       /\ Cardinality(nets) <= MaxDesired
       /\ given \/ nets = {}
       /\ params = [node |-> node, given |-> given, networks |-> nets]
  /\ last = [pre |-> cloud, r |-> StartRun(params)]
  /\ prev = NoRun
  /\ runs = << >>
  /\ startedAfter = 0

\* One run of the module, from start to end.
Run ==
  LET m == run(cloud, params)
  IN /\ cloud.nextId <= MaxPortId
     /\ cloud' = m.c
     /\ last' = [pre |-> cloud, r |-> m.r]
     /\ prev' = IF last.r.pc = "end" THEN Outcome(last.r) ELSE NoRun
     /\ UNCHANGED << params, runs, startedAfter >>

Next == Run

Spec == Init /\ [][Next]_vars

(***************************************************************************)
(* Two runs of the module against the same node at the same time, as two   *)
(* playbooks would start them.  Nothing in the module coordinates them:    *)
(* each run is the iteration of Step on its own local state against the    *)
(* shared cloud, and the runs interleave between any two external calls.   *)
(*   runs         : the local state of each run                            *)
(*   startedAfter : p when the other run made its first call after run p   *)
(*                  had ended (the two runs did not overlap), 0 otherwise  *)
(* last.pre keeps the cloud the two runs started from.                     *)
(***************************************************************************)
Procs == {1, 2}
Other(p) == 3 - p

\* The desired lists of the concurrent runs name networks by id; the first
\* two networks have different names.
ConcRefs == {NetIds[1], NetIds[2]}

\* The Neutron ports before the runs carry the conventional name of their
\* network; order lists the networks that have one.
ConcPorts(order) ==
  [k \in 1..Len(order) |-> [id |-> k,
                            name |-> PortName(NodeName, NetNames[order[k]]),
                            network_id |-> NetIds[order[k]]]]

InitConc ==
  /\ \E order \in {<< >>, << 1 >>, << 2 >>, << 1, 2 >>, << 2, 1 >>} :
       \E vif \in [1..NumPorts -> 0..Len(order)] :
         /\ \A k, l \in 1..NumPorts : (k # l /\ vif[k] # NoVif) => vif[k] # vif[l]
         /\ cloud = [networks |-> AllNetworks,
                     ports |-> ConcPorts(order),
                     bmports |-> InitBmPorts(vif),
                     nextId |-> Len(order) + 1]
  /\ \E S \in [Procs -> SUBSET ConcRefs] :
       runs = [p \in Procs |->
                 StartRun([node |-> NodeName, given |-> TRUE, networks |-> S[p]])]
  /\ startedAfter = 0
  /\ params = runs[1].params
  /\ last = [pre |-> cloud, r |-> StartRun(params)]
  /\ prev = NoRun

\* Run p issues its next external call and runs up to the one after it.
RunStep(p) ==
  LET m == Step([c |-> cloud, r |-> runs[p]])
  IN /\ runs[p].pc # "end"
     /\ cloud' = m.c
     /\ runs' = [runs EXCEPT ![p] = m.r]
     /\ startedAfter' = IF runs[p].calls = << >> /\ runs[Other(p)].pc = "end"
                        THEN Other(p) ELSE startedAfter
     /\ UNCHANGED << params, last, prev >>

NextConc == \E p \in Procs : RunStep(p)

SpecConc == InitConc /\ [][NextConc]_vars

(***************************************************************************)
(* Vocabulary of the properties, stated on the cloud itself.               *)
(***************************************************************************)
Ran == last.r.pc = "end"
NodeFound == \E k \in 1..Len(Nodes) :
               Nodes[k].id = params.node \/ Nodes[k].name = params.node
Issued(op) == \E k \in 1..Len(last.r.calls) : last.r.calls[k].op = op
NoMutatingCall == \A k \in 1..Len(last.r.calls) : last.r.calls[k].op \notin Mutating

\* The physical ports of the node, and the free ones among them
OwnPorts(c) == {bp \in Range(c.bmports) : bp.node_id = NodeId}
FreePorts(c) == {bp \in OwnPorts(c) : bp.vif = NoVif}
\* The Neutron ports some physical port of the node points to
CarriedPorts(c) == {p \in Range(c.ports) : \E bp \in OwnPorts(c) : bp.vif = p.id}
\* The networks derived from the physical ports of the node
AttachedIds(c) == {p.network_id : p \in CarriedPorts(c)}
VisibleIds(c) == {net.id : net \in Range(c.networks)}
\* The networks the networks parameter resolves to
ResolvedIds(c) ==
  {net.id : net \in {n \in Range(c.networks) :
                       /\ params.given
                       /\ n.id \in params.networks \/ n.name \in params.networks}}

\* C1: whenever a run returns successfully, the networks derived from the
\* physical ports of the node are exactly the networks the desired list
\* resolves to.
C1_Convergence ==
  (Ran /\ last.r.status = "ok") => AttachedIds(cloud) = ResolvedIds(cloud)

\* C2: a run that follows a run with the same parameters reports no change
\* and issues no create_port, delete_port, attach_vif or detach_vif.
C2_Idempotence ==
  (Ran /\ prev.status # "none") =>
    /\ ~(last.r.status = "ok" /\ last.r.changed)
    /\ NoMutatingCall

\* C3: with an empty or absent desired list the run ends with no network
\* attached to a physical port of the node, and it issues neither
\* create_port nor attach_vif.
C3_EmptySetDetach ==
  (Ran /\ NodeFound /\ (~params.given \/ params.networks = {})) =>
    /\ AttachedIds(cloud) = {}
    /\ ~Issued("create_port") /\ ~Issued("attach_vif")

\* C4: a node reference that resolves to no node makes the run fail with
\* NotFound without any mutating call, the cloud left as it was.
C4_NotFoundBeforeMutation ==
  (Ran /\ ~NodeFound) =>
    /\ last.r.status = "NotFound"
    /\ NoMutatingCall
    /\ cloud = last.pre

C4_Witness ==
  /\ Ran /\ ~NodeFound /\ last.r.status = "NotFound"
  /\ AttachedIds(cloud) # ResolvedIds(cloud)

\* The port the module finds for a network under the conventional name is
\* carried by a physical port of the node.
Carried(c, net) ==
  \E k \in 1..Len(c.ports) :
    /\ c.ports[k].name = PortName(NodeName, net.name)
    /\ \A l \in 1..(k - 1) : c.ports[l].name # c.ports[k].name
    /\ c.ports[k] \in CarriedPorts(c)

\* The visible networks the desired list resolves to and that are not
\* attached: the new attachments the desired list requires.
NewAttachments(c) ==
  {net \in Range(c.networks) : net.id \in ResolvedIds(c) \ AttachedIds(c)}

\* C5 as claimed: a run on a node without a free physical port, with a
\* desired list that requires one new attachment (one desired network is
\* not attached, and its port is not yet carried by a physical port), fails
\* with PortExhausted and reports no change.
C5_ExhaustionAsClaimed ==
  (/\ Ran /\ NodeFound
   /\ FreePorts(last.pre) = {}
   /\ Cardinality(NewAttachments(last.pre)) = 1
   /\ \A net \in NewAttachments(last.pre) : ~Carried(last.pre, net)) =>
    /\ last.r.status = "PortExhausted"
    /\ ~Outcome(last.r).changed

\* C5 as amended: a run on a node without a free physical port, whose
\* detach phase detaches nothing and whose desired list requires the
\* attachment of a network whose port is not yet carried by a physical
\* port, fails with PortExhausted, attaches nothing and reports no change.
C5_Exhaustion ==
  (/\ Ran /\ NodeFound
   /\ FreePorts(last.pre) = {}
   /\ ~Issued("detach_vif")
   /\ \E net \in NewAttachments(last.pre) : ~Carried(last.pre, net)) =>
    /\ last.r.status = "PortExhausted"
    /\ ~Issued("attach_vif")
    /\ ~Outcome(last.r).changed

C5_Witness ==
  /\ Ran /\ NodeFound /\ prev.status = "none"
  /\ FreePorts(last.pre) = {}
  /\ ~Issued("detach_vif")
  /\ Cardinality(NewAttachments(last.pre)) = 1
  /\ last.r.status = "PortExhausted"
  /\ Issued("create_port")

\* C6: a run that fails with PortExhausted stops at the first network of
\* to_attach that finds no free physical port: the networks before it are
\* placed, none after it is looked up, and the effect of every detach_vif,
\* delete_port, create_port and attach_vif of the run is still in the cloud.
C6_HardStopNoRollback ==
  (Ran /\ last.r.status = "PortExhausted") =>
    LET r == last.r
        lookups == {k \in 1..Len(r.calls) : r.calls[k].op = "ports"}
    IN /\ r.i \in 1..Len(r.networks_to_attach)
       /\ Cardinality(lookups) = Len(r.networks_to_detach) + r.i
       /\ \A k \in 1..(r.i - 1) : Carried(cloud, r.networks_to_attach[k])
       /\ ~Carried(cloud, r.networks_to_attach[r.i])
       /\ FreePorts(cloud) = {}
       /\ \A k \in 1..Len(r.calls) :
            LET call == r.calls[k]
            IN /\ call.op = "detach_vif" =>
                    \A bp \in OwnPorts(cloud) : bp.vif # call.id
               /\ call.op = "delete_port" =>
                    \A p \in Range(cloud.ports) : p.id # call.id
               /\ call.op = "create_port" =>
                    \E p \in Range(cloud.ports) :
                       p.id = call.id /\ p.name = call.name /\ p.network_id = call.net
               /\ call.op = "attach_vif" =>
                    \E bp \in OwnPorts(cloud) : bp.id = call.port /\ bp.vif = call.id

C6_Witness ==
  /\ Ran /\ last.r.status = "PortExhausted"
  /\ Issued("detach_vif") /\ Issued("delete_port") /\ Issued("attach_vif")
  /\ last.r.i < Len(last.r.networks_to_attach)

\* The names the run looks Neutron ports up by, in the order of the calls
LookupNames(r) ==
  LET IsLookup(call) == call.op = "ports"
      lookups == SelectSeq(r.calls, IsLookup)
  IN [k \in 1..Len(lookups) |-> lookups[k].name]

\* The names of the ports of the networks of a list, in the order of the list
NamesOf(nets) == [k \in 1..Len(nets) |-> PortName(NodeName, nets[k].name)]

\* C8: in one run every detach_vif and delete_port precedes every
\* create_port and attach_vif, and the networks are looked up in the order
\* of networks_to_detach followed by the order of networks_to_attach (up
\* to the network at which the run fails).
C8_PhaseOrdering ==
  (Ran /\ NodeFound) =>
    LET r == last.r
        expected == NamesOf(r.networks_to_detach) \o NamesOf(r.networks_to_attach)
        done == IF r.status = "ok" THEN Len(expected)
                ELSE Len(r.networks_to_detach) + r.i
    IN /\ \A a, b \in 1..Len(r.calls) :
            (/\ r.calls[a].op \in {"detach_vif", "delete_port"}
             /\ r.calls[b].op \in {"create_port", "attach_vif"}) => a < b
       /\ LookupNames(r) = SubSeq(expected, 1, done)
       /\ \A a \in 1..Len(r.calls) :
            r.calls[a].op = "detach_vif" =>
              /\ r.calls[a - 1].op = "ports"
              /\ a < Len(r.calls)
              /\ r.calls[a + 1].op = "delete_port"
              /\ r.calls[a + 1].id = r.calls[a].id

C8_Witness ==
  /\ Ran /\ NodeFound
  /\ Len(last.r.networks_to_detach) >= 2
  /\ Len(last.r.networks_to_attach) >= 2
  /\ last.r.networks_to_attach[1].name # last.r.networks_to_attach[2].name
  /\ Issued("detach_vif") /\ Issued("create_port") /\ Issued("attach_vif")

\* C9: a run whose desired list matches no visible network by name or id
\* does not fail, and issues the calls, leaves the cloud and reports the
\* change of a run with the empty list from the same cloud.
C9_UnknownReferences ==
  (Ran /\ NodeFound /\ ResolvedIds(last.pre) = {}) =>
    LET empty == run(last.pre, [node |-> params.node, given |-> TRUE, networks |-> {}])
    IN /\ last.r.status = "ok"
       /\ last.r.calls = empty.r.calls
       /\ cloud = empty.c
       /\ last.r.changed = empty.r.changed

C9_Witness ==
  /\ Ran /\ NodeFound /\ prev.status = "none"
  /\ params.given /\ params.networks = {"does-not-exist"}
  /\ last.r.status = "ok" /\ last.r.changed
  /\ Issued("detach_vif")

\* C10: networks_to_detach holds exactly the attached visible networks whose
\* id is not the id of a desired network, networks_to_attach exactly the
\* desired networks whose id is not the id of an attached network; a network
\* referenced by name and by id and already attached is in neither.
C10_DiffById ==
  (Ran /\ NodeFound) =>
    LET r == last.r
        detach == {net.id : net \in Range(r.networks_to_detach)}
        attach == {net.id : net \in Range(r.networks_to_attach)}
    IN /\ detach = (AttachedIds(last.pre) \cap VisibleIds(last.pre))
                     \ ResolvedIds(last.pre)
       /\ attach = ResolvedIds(last.pre) \ AttachedIds(last.pre)
       /\ \A net \in Range(last.pre.networks) :
            (/\ net.id \in AttachedIds(last.pre)
             /\ params.given
             /\ net.id \in params.networks \/ net.name \in params.networks) =>
              net.id \notin detach \cup attach

C10_Witness ==
  /\ Ran /\ NodeFound /\ prev.status = "none"
  /\ \E net \in Range(last.pre.networks) :
       /\ net.id \in params.networks /\ net.name \in params.networks
       /\ net.id \in AttachedIds(last.pre)
       /\ \E other \in Range(last.r.networks_to_attach) : other.name = net.name
  /\ last.r.networks_to_detach # << >>

\* The physical ports a run can use for a desired network: the free ones
\* and those carrying a port of a visible network.
UsablePorts(c) ==
  {bp \in OwnPorts(c) :
     \/ bp.vif = NoVif
     \/ \E p \in Range(c.ports) : p.id = bp.vif /\ p.network_id \in VisibleIds(c)}

\* C7: re-invoking the module after a run that failed with PortExhausted
\* reaches a run that succeeds with changed = false and the attached set
\* equal to the desired set.  Runs are deterministic, so a retry that
\* leaves the cloud as it found it is repeated by every later retry: the
\* claim requires such a retry to be the converged run.  It is stated for
\* the desired sets the node has enough usable physical ports for.
C7_RetryConvergence ==
  (/\ Ran /\ prev.status = "PortExhausted"
   /\ cloud = last.pre
   /\ Cardinality(ResolvedIds(cloud)) <= Cardinality(UsablePorts(cloud))) =>
    /\ last.r.status = "ok" /\ ~last.r.changed
    /\ AttachedIds(cloud) = ResolvedIds(cloud)

\* The cloud the call at index k of the last run meets: the cloud the run
\* started from after the mutating calls before k.
RECURSIVE CloudBefore(_)
CloudBefore(k) ==
  IF k <= 1 THEN last.pre
  ELSE LET c == CloudBefore(k - 1)
           call == last.r.calls[k - 1]
       IN CASE call.op = "detach_vif" -> DetachVif(c, NodeId, call.id)
            [] call.op = "delete_port" -> DeletePort(c, call.id)
            [] call.op = "create_port" -> CreatePort(c, call.name, call.net)
            [] call.op = "attach_vif" -> AttachVif(c, NodeId, call.id, call.port)
            [] OTHER -> c

MutatingCalls(r) ==
  LET IsMutating(call) == call.op \in Mutating
  IN SelectSeq(r.calls, IsMutating)

\* The scenario of the specification: two physical ports, one free and one
\* carrying the only Neutron port, N-<net-A> on net-A; the desired list
\* resolves to the single network net-B, of another name.
FreedPortScenario(c, netA, netB) ==
  /\ Len(c.ports) = 1
  /\ c.ports[1].name = PortName(NodeName, netA.name)
  /\ c.ports[1].network_id = netA.id
  /\ Cardinality(OwnPorts(c)) = 2
  /\ Cardinality(FreePorts(c)) = 1
  /\ \E bp \in OwnPorts(c) : bp.vif = c.ports[1].id
  /\ ResolvedIds(c) = {netB.id}
  /\ netA.name # netB.name

\* C11: a physical port vacated by the detach phase counts as free in the
\* attach phase.  Every attach_vif goes to a port that was free at the start
\* or whose VIF the run detached before; a run that starts without a free
\* port, detaches a VIF and has to place the first network of
\* networks_to_attach attaches it; and in the scenario of the specification
\* the run issues detach_vif and delete_port of N-<net-A>, create_port of
\* N-<net-B> and attach_vif of the new port, and exits with changed = true.
C11_FreedPortsReused ==
  (Ran /\ NodeFound) =>
    LET r == last.r
    IN /\ \A k \in 1..Len(r.calls) :
            r.calls[k].op = "attach_vif" =>
              \E bp \in OwnPorts(last.pre) :
                 /\ bp.id = r.calls[k].port
                 /\ \/ bp.vif = NoVif
                    \/ \E d \in 1..(k - 1) :
                          r.calls[d].op = "detach_vif" /\ r.calls[d].id = bp.vif
       /\ (/\ FreePorts(last.pre) = {}
           /\ Issued("detach_vif")
           /\ r.networks_to_attach # << >>
           /\ ~Carried(last.pre, r.networks_to_attach[1])) =>
            Issued("attach_vif")
       /\ \A netA, netB \in Range(last.pre.networks) :
            FreedPortScenario(last.pre, netA, netB) =>
              LET old == last.pre.ports[1].id
                  new == last.pre.nextId
                  calls == MutatingCalls(r)
              IN /\ r.status = "ok" /\ r.changed
                 /\ Len(calls) = 4
                 /\ calls[1] = Call("detach_vif", "", "", old, 0)
                 /\ calls[2] = Call("delete_port", "", "", old, 0)
                 /\ calls[3] = Call("create_port", PortName(NodeName, netB.name),
                                    netB.id, new, 0)
                 /\ calls[4].op = "attach_vif" /\ calls[4].id = new
                 /\ AttachedIds(cloud) = {netB.id}

\* The scenario with the first physical port carrying N-<net-A>: the new
\* port goes to the port just vacated.
C11_Witness ==
  /\ Ran /\ NodeFound /\ prev.status = "none"
  /\ \E netA, netB \in Range(last.pre.networks) :
       /\ FreedPortScenario(last.pre, netA, netB)
       /\ \E bp \in OwnPorts(last.pre), k \in 1..Len(last.r.calls) :
            /\ bp.vif = last.pre.ports[1].id
            /\ last.r.calls[k].op = "attach_vif"
            /\ last.r.calls[k].port = bp.id

\* C12: every attach_vif of the attach phase targets the first physical port,
\* in the order of the fetch of that iteration, without tenant_vif_port_id:
\* the target is free and no port fetched before it is.
C12_FirstFree ==
  (Ran /\ NodeFound) =>
    \A k \in 1..Len(last.r.calls) :
       last.r.calls[k].op = "attach_vif" =>
         LET fetched == BaremetalPorts(CloudBefore(k), NodeId)
         IN \E j \in 1..Len(fetched) :
               /\ fetched[j].id = last.r.calls[k].port
               /\ fetched[j].vif = NoVif
               /\ \A h \in 1..(j - 1) : fetched[h].vif # NoVif

\* A run that finds two free ports and one that finds the first port
\* occupied: two attach_vif in one run, the first port first.
C12_Witness ==
  /\ Ran /\ NodeFound
  /\ Cardinality(FreePorts(last.pre)) = 2
  /\ \E k, l \in 1..Len(last.r.calls) :
       /\ k < l
       /\ last.r.calls[k].op = "attach_vif"
       /\ last.r.calls[l].op = "attach_vif"
       /\ last.r.calls[k].port = BaremetalPorts(last.pre, NodeId)[1].id
       /\ last.r.calls[l].port = BaremetalPorts(last.pre, NodeId)[2].id

\* The index in the call log of the t-th lookup of a Neutron port by name.
\* The lookups of the detach loop come first, one per network of
\* networks_to_detach.
LookupIndex(r, t) ==
  CHOOSE k \in 1..Len(r.calls) :
    /\ r.calls[k].op = "ports"
    /\ Cardinality({h \in 1..k : r.calls[h].op = "ports"}) = t

\* The detach iteration t of the last run meets a no-op branch: no Neutron
\* port has the conventional name of the network, or the first one that has
\* is the VIF of no physical port of the node.
DetachNoOp(t) ==
  LET c == CloudBefore(LookupIndex(last.r, t))
      port == find_network_port(c, NodeName, last.r.networks_to_detach[t].name)
  IN port = NoPort \/ \A bp \in OwnPorts(c) : bp.vif # port.id

\* C13: a detach iteration on a no-op branch issues no detach_vif and no
\* delete_port and leaves the port it found in Neutron; a run all of whose
\* detach iterations are no-ops and that has nothing to attach reports
\* changed = false and leaves the services as they were.
C13_DetachNoOp ==
  (Ran /\ NodeFound) =>
    LET r == last.r
        todo == 1..Len(r.networks_to_detach)
    IN /\ \A t \in todo :
            DetachNoOp(t) =>
              LET k == LookupIndex(r, t)
                  port == find_network_port(CloudBefore(k), NodeName,
                                            r.networks_to_detach[t].name)
              IN /\ k < Len(r.calls) =>
                      r.calls[k + 1].op \notin {"detach_vif", "delete_port"}
                 /\ port # NoPort => port \in Range(cloud.ports)
       /\ (/\ todo # {}
           /\ \A t \in todo : DetachNoOp(t)
           /\ r.networks_to_attach = << >>) =>
            /\ r.status = "ok" /\ ~r.changed
            /\ NoMutatingCall
            /\ cloud = last.pre

\* A run whose detach loop finds the port of the conventional name orphaned,
\* and one whose detach loop finds no port.
C13_Witness ==
  /\ Ran /\ NodeFound
  /\ Len(last.r.networks_to_detach) = 2
  /\ DetachNoOp(1)
  /\ DetachNoOp(2)
  /\ find_network_port(last.pre, NodeName, last.r.networks_to_detach[1].name) = NoPort
  /\ find_network_port(last.pre, NodeName, last.r.networks_to_detach[2].name) # NoPort

\* The physical ports of the node whose tenant_vif_port_id resolves to a
\* Neutron port on a listed network, and those whose reference is stale: it
\* resolves to no port, or to a port on a network that is not listed.
LivePorts(c) ==
  {bp \in OwnPorts(c) :
     /\ bp.vif # NoVif
     /\ FindPort(c, bp.vif) # NoPort
     /\ FindPort(c, bp.vif).network_id \in VisibleIds(c)}
StalePorts(c) == {bp \in OwnPorts(c) : bp.vif # NoVif /\ bp \notin LivePorts(c)}

\* The cloud c without its stale references
Cleared(c) ==
  [c EXCEPT !.bmports =
     [k \in 1..Len(@) |->
        IF @[k] \in StalePorts(c) THEN [@[k] EXCEPT !.vif = NoVif] ELSE @[k]]]

\* A stale reference contributes nothing to the currently-attached set.
StaleSkipped ==
  LET current == last.r.current_network_objects
  IN /\ Len(current) = Cardinality(LivePorts(last.pre))
     /\ {net.id : net \in Range(current)} =
          {FindPort(last.pre, bp.vif).network_id : bp \in LivePorts(last.pre)}

\* C14 as stated: stale references contribute nothing to the
\* currently-attached set and never make the run fail, so a run that
\* succeeds on the cloud without them succeeds with them.
C14_StaleBenignAsClaimed ==
  (Ran /\ NodeFound) =>
    /\ StaleSkipped
    /\ run(Cleared(last.pre), params).r.status = "ok" => last.r.status = "ok"

\* C14, amended: stale references contribute nothing to the
\* currently-attached set and resolving them raises nothing, so a run on a
\* node that exists ends ok or with PortExhausted; a port with a stale
\* reference is not free, and a run fails with PortExhausted only when the
\* node has no port without tenant_vif_port_id.
C14_StaleBenign ==
  (Ran /\ NodeFound) =>
    /\ StaleSkipped
    /\ last.r.status \in {"ok", "PortExhausted"}
    /\ last.r.status = "PortExhausted" => FreePorts(cloud) = {}
    /\ \A k \in 1..Len(last.r.calls) :
          last.r.calls[k].op = "attach_vif" =>
            \A bp \in StalePorts(last.pre) : bp.id # last.r.calls[k].port \/
               \E d \in 1..(k - 1) : /\ last.r.calls[d].op = "detach_vif"
                                     /\ last.r.calls[d].id = bp.vif

\* A run on a node with a stale reference that attaches a network to the
\* other port and succeeds.
C14_Witness ==
  /\ Ran /\ NodeFound
  /\ StalePorts(last.pre) # {}
  /\ last.r.current_network_objects = << >>
  /\ last.r.status = "ok"
  /\ Issued("attach_vif")
  /\ StalePorts(cloud) = StalePorts(last.pre)

\* The identity of the physical ports of all nodes, in listing order
PortIdentities(c) ==
  [k \in 1..Len(c.bmports) |-> [id |-> c.bmports[k].id,
                                node_id |-> c.bmports[k].node_id]]

\* C16: attach_vif is issued only for a physical port of the node that has
\* no tenant_vif_port_id at that moment, so Ironic never refuses it and no
\* attachment is overwritten: a port loses the VIF it had only by a
\* detach_vif of that VIF.  The run creates and deletes no physical port
\* and touches no port of another node.
C16_OneVifPerPort ==
  (Ran /\ NodeFound) =>
    LET r == last.r
    IN /\ \A k \in 1..Len(r.calls) :
            r.calls[k].op = "attach_vif" =>
              /\ CanAttachVif(CloudBefore(k), NodeId, r.calls[k].id, r.calls[k].port)
              /\ \A bp \in OwnPorts(CloudBefore(k)) :
                    bp.id = r.calls[k].port => bp.vif = NoVif
       /\ r.status # "Conflict"
       /\ PortIdentities(cloud) = PortIdentities(last.pre)
       /\ \A k \in 1..Len(cloud.bmports) :
            LET before == last.pre.bmports[k].vif
            IN (before # NoVif /\ cloud.bmports[k].vif # before) =>
                 /\ cloud.bmports[k].node_id = NodeId
                 /\ \E d \in 1..Len(r.calls) :
                       r.calls[d].op = "detach_vif" /\ r.calls[d].id = before

\* A run that attaches a network next to an attachment it keeps.
C16_Witness ==
  /\ Ran /\ NodeFound
  /\ last.r.status = "ok"
  /\ Issued("attach_vif")
  /\ ~Issued("detach_vif")
  /\ \E bp \in OwnPorts(last.pre) : bp.vif # NoVif /\ bp \in OwnPorts(cloud)
  /\ FreePorts(cloud) = {}

\* C17: a successful run reports changed = true exactly when it issued a
\* mutating call (detach_vif, delete_port, create_port, attach_vif), and a
\* successful run that reports changed = false leaves both services as it
\* found them.
C17_ChangedAccurate ==
  (Ran /\ last.r.status = "ok") =>
    /\ last.r.changed <=> ~NoMutatingCall
    /\ ~last.r.changed => cloud = last.pre

\* A successful run that only detaches, and reports changed = true.
C17_Witness ==
  /\ Ran /\ last.r.status = "ok"
  /\ last.r.changed
  /\ Issued("delete_port")
  /\ ~Issued("attach_vif")
  /\ ~Issued("create_port")

\* C18: every Neutron port a run creates is the VIF of a physical port of
\* the node when the run ends, also when the run ends with PortExhausted.
C18_NoOrphanCreation ==
  (Ran /\ NodeFound) =>
    \A k \in 1..Len(last.r.calls) :
       last.r.calls[k].op = "create_port" =>
         \E bp \in OwnPorts(cloud) : bp.vif = last.r.calls[k].id

\* C19: a network that is attached when the run starts and is in the desired
\* set is left alone: the physical port that carries it keeps its
\* tenant_vif_port_id, its Neutron port stays, no detach_vif, delete_port or
\* attach_vif names that port and no create_port names the network.
C19_DesiredLeftAlone ==
  (Ran /\ NodeFound) =>
    \A bp \in LivePorts(last.pre) :
       LET port == FindPort(last.pre, bp.vif)
       IN port.network_id \in ResolvedIds(last.pre) =>
            /\ bp \in OwnPorts(cloud)
            /\ port \in Range(cloud.ports)
            /\ \A k \in 1..Len(last.r.calls) :
                  LET call == last.r.calls[k]
                  IN /\ call.op \in {"detach_vif", "delete_port", "attach_vif"} =>
                          call.id # port.id
                     /\ call.op = "create_port" => call.net # port.network_id

(***************************************************************************)
(* Concurrent runs.                                                        *)
(***************************************************************************)
Ended(p) == runs[p].pc = "end"
NotStarted(p) == runs[p].calls = << >>
DesiredIds(p) ==
  {net.id : net \in Range(desired_network_objects(cloud.networks,
                                                  desired_networks(runs[p].params)))}

\* C15: the module does not coordinate concurrent runs.  Convergence is the
\* guarantee of a run that has the node to itself: a run that ends ok before
\* the other starts leaves exactly its desired set attached, and so does a
\* run that starts after the other has ended.  It is not the guarantee of
\* runs that overlap (C15_Witness).
C15_SerialRunsConverge ==
  \A p \in Procs :
     /\ (Ended(p) /\ runs[p].status = "ok" /\ NotStarted(Other(p))) =>
          AttachedIds(cloud) = DesiredIds(p)
     /\ (Ended(p) /\ runs[p].status = "ok" /\ startedAfter = Other(p)) =>
          AttachedIds(cloud) = DesiredIds(p)
     /\ (Ended(p) /\ (NotStarted(Other(p)) \/ startedAfter = Other(p))) =>
          runs[p].status \in {"ok", "PortExhausted"}

\* Two overlapping runs have both ended ok and the attached set is the
\* desired set of neither.
C15_Witness ==
  /\ \A p \in Procs : Ended(p) /\ runs[p].status = "ok"
  /\ startedAfter = 0
  /\ \A p \in Procs : AttachedIds(cloud) # DesiredIds(p)
====
